---- MODULE Spec2Model ----
(***************************************************************************)
(* A model of chrome/common/extensions/docs/server2/intro_data_source.py:  *)
(* the _IntroParser heading parser, the IntroDataSource._MakeIntroDict     *)
(* builder and the IntroDataSource.get resolver.                           *)
(*                                                                         *)
(* Text is a sequence of one-character strings, so that Python's += on     *)
(* strings is \o.  An optional value (None or a value) is a sequence of    *)
(* length 0 or 1.                                                          *)
(***************************************************************************)
EXTENDS Integers, Sequences, FiniteSets, TLC

VARIABLES
  parser,       \* the _IntroParser object: toc, page_title, recent_tag, current_heading, failed
  lastEvent,    \* history: the event the parser processed last
  prevEvent,    \* history: the event before it
  nevents,      \* history: the number of events processed
  seenH23,      \* history: an h2 or h3 start tag has been processed
  seenH23Titled, \* history: an h2 or h3 start tag has been processed while page_title was present
  h3log,        \* history: per section, the ids of the h3 tags opened while it was the last one
  opened,       \* history: the heading opened last, while no heading has closed since
  captureTo,    \* history: where text is to go, by the rule of the amended C5
  doc,          \* the event sequence of a structured document (SpecDoc)
  shape,        \* the numbers of headings doc was made from
  pos,          \* the next event of doc to feed
  frags,        \* the fragments the markup of the last build was written from
  intro,        \* the markup handed to _MakeIntroDict last
  built,        \* what that call returned, or the exception it raised (None before a call)
  base_paths,   \* IntroDataSource._base_paths
  files,        \* the file system: what each path holds, or "missing"
  cache,        \* the memoizing cache behind _cache.GetFromFile: path -> None or the artifact
  builds,       \* history: how many times _MakeIntroDict ran for each path
  ncalls,       \* history: the number of get calls started
  call,         \* the get call in progress or just finished
  probes,       \* history: the paths that call handed to GetFromFile, in order
  served,       \* history: the artifacts get has returned: path, number of the build, call, key
  calls,        \* the get calls of the concurrent callers (SpecConcurrent)
  prevParser,   \* the _IntroParser object the previous build left behind (SpecBuilds)
  buildLog,     \* history: the markup and the result of every build so far, in order
  nbuilds,      \* history: the number of builds run
  main          \* run_all_tests.main(): options, position, locals and the suites run so far

parserVars == <<parser, lastEvent, prevEvent, nevents, seenH23, seenH23Titled, h3log, opened, captureTo>>
docVars == <<doc, shape, pos>>
builderVars == <<frags, intro, built>>
resolverVars == <<base_paths, files, cache, builds, ncalls, call, probes, served>>
extraVars == <<calls, prevParser, buildLog, nbuilds, main>>
vars == <<parser, lastEvent, prevEvent, nevents, seenH23, seenH23Titled, h3log, opened, captureTo,
          doc, shape, pos, frags, intro, built,
          base_paths, files, cache, builds, ncalls, call, probes, served,
          calls, prevParser, buildLog, nbuilds, main>>

\* ------------------------------------------------------------------ bounds
MaxEvents == 6
MaxH1 == 2
MaxH2 == 2
MaxH3 == 2
MaxFrags == 4
MaxBases == 2
MaxCalls == 2

\* ------------------------------------------------------------------ values
None == <<>>
Some(x) == <<x>>

Headings == {"h1", "h2", "h3"}

\* The pointer _current_heading: NoNode is the initial {} (a dict that is in no
\* toc), <<i>> is toc[i], <<i, j>> is toc[i]['subheadings'][j] and Orphan is the
\* h3 dict created on line 37 whose append on line 38 raised.
NoNode == <<>>
Orphan == <<0, 0>>

Last(s) == s[Len(s)]

\* ------------------------------------------------------------ _IntroParser
IntroParserInit ==
  [toc |-> <<>>, page_title |-> None, recent_tag |-> None,
   current_heading |-> NoNode, failed |-> FALSE]

\* Mutant: the first attribute is taken for the id, whatever its name.
IdOfFirstAttr(attrs) == IF attrs = <<>> THEN "" ELSE attrs[1][2]

\* for attr in attrs: if attr[0] == 'id': id_ = attr[1]   (the last id wins)
IdOf(attrs) ==
  LET ids == {i \in 1..Len(attrs) : attrs[i][1] = "id"}
  IN  IF ids = {} THEN ""
      ELSE attrs[CHOOSE i \in ids : \A j \in ids : j <= i][2]

\* Mutant: every heading start tag sets _recent_tag (the page_title test dropped).
RecentTagAlways(p, tag) == Some(tag)

RecentTagAfterStart(p, tag) ==
  IF tag # "h1" \/ p.page_title = None THEN Some(tag) ELSE p.recent_tag

\* Mutant: an h3 is appended to the first section (toc[0]) instead of toc[-1].
handle_starttag_first(p, tag, attrs) ==
  IF tag = "h3" /\ p.toc # <<>>
  THEN [p EXCEPT !.recent_tag = Some(tag),
                 !.toc[1].subheadings = Append(@, [link |-> IdOf(attrs), title |-> <<>>]),
                 !.current_heading = <<1, Len(p.toc[1].subheadings) + 1>>]
  ELSE IF tag = "h2"
  THEN [p EXCEPT !.recent_tag = Some(tag),
                 !.toc = Append(p.toc, [link |-> IdOf(attrs), subheadings |-> <<>>, title |-> <<>>]),
                 !.current_heading = <<Len(p.toc) + 1>>]
  ELSE IF tag = "h3"
  THEN [p EXCEPT !.recent_tag = Some(tag), !.current_heading = Orphan, !.failed = TRUE]
  ELSE IF tag = "h1" /\ p.page_title = None
  THEN [p EXCEPT !.recent_tag = Some(tag)]
  ELSE p

\* Mutant: an h3 that finds toc empty gets an implicit section to go under.
handle_starttag_implicit(p, tag, attrs) ==
  IF tag \notin Headings THEN p
  ELSE IF tag = "h2"
  THEN [p EXCEPT !.recent_tag = RecentTagAfterStart(p, tag),
                 !.toc = Append(p.toc, [link |-> IdOf(attrs), subheadings |-> <<>>, title |-> <<>>]),
                 !.current_heading = <<Len(p.toc) + 1>>]
  ELSE IF tag = "h3"
  THEN LET t == IF p.toc = <<>> THEN <<[link |-> "", subheadings |-> <<>>, title |-> <<>>]>>
                ELSE p.toc
           n == Len(t)
       IN  [p EXCEPT !.recent_tag = RecentTagAfterStart(p, tag),
                     !.toc = [t EXCEPT ![n].subheadings = Append(@, [link |-> IdOf(attrs), title |-> <<>>])],
                     !.current_heading = <<n, Len(t[n].subheadings) + 1>>]
  ELSE [p EXCEPT !.recent_tag = RecentTagAfterStart(p, tag)]

handle_starttag(p, tag, attrs) ==
  IF tag \notin Headings THEN p
  ELSE
    LET rt == RecentTagAfterStart(p, tag)
        id == IdOf(attrs)
    IN  CASE tag = "h2" ->
               [p EXCEPT !.recent_tag = rt,
                         !.toc = Append(p.toc, [link |-> id, subheadings |-> <<>>, title |-> <<>>]),
                         !.current_heading = <<Len(p.toc) + 1>>]
          [] tag = "h3" ->
               IF p.toc = <<>>
               THEN \* self.toc[-1] raises IndexError after lines 29 and 37 ran
                    [p EXCEPT !.recent_tag = rt, !.current_heading = Orphan, !.failed = TRUE]
               ELSE LET n == Len(p.toc)
                    IN  [p EXCEPT !.recent_tag = rt,
                                  !.toc[n].subheadings = Append(@, [link |-> id, title |-> <<>>]),
                                  !.current_heading = <<n, Len(p.toc[n].subheadings) + 1>>]
          [] OTHER -> [p EXCEPT !.recent_tag = rt]

\* Mutant: the close of any tag stops the capture.
handle_endtag_any(p, tag) == [p EXCEPT !.recent_tag = None]

\* Mutant: only the close of an h1 stops the capture.
handle_endtag_h1(p, tag) ==
  IF tag = "h1" THEN [p EXCEPT !.recent_tag = None] ELSE p

\* Mutant: the close of an h1 does not stop the capture.
handle_endtag_noth1(p, tag) ==
  IF tag \in {"h2", "h3"} THEN [p EXCEPT !.recent_tag = None] ELSE p

handle_endtag(p, tag) ==
  IF tag \in Headings THEN [p EXCEPT !.recent_tag = None] ELSE p

\* Mutant: the text always goes to the last section, whatever _current_heading is.
AppendTitleLastSection(p, data) ==
  IF p.toc = <<>> THEN p ELSE [p EXCEPT !.toc[Len(p.toc)].title = @ \o data]

\* self._current_heading['title'] += data, through the alias into toc
AppendTitle(p, data) ==
  LET h == p.current_heading
  IN  CASE h = NoNode -> [p EXCEPT !.failed = TRUE]   \* {}['title'] raises KeyError
        [] h = Orphan -> p                            \* a dict that is in no toc
        [] Len(h) = 1 -> [p EXCEPT !.toc[h[1]].title = @ \o data]
        [] OTHER -> [p EXCEPT !.toc[h[1]].subheadings[h[2]].title = @ \o data]

handle_data(p, data) ==
  IF p.recent_tag = None THEN p
  ELSE IF p.recent_tag = Some("h1")
       THEN IF p.page_title = None
            THEN [p EXCEPT !.page_title = Some(data)]
            ELSE [p EXCEPT !.page_title = Some(p.page_title[1] \o data)]
       ELSE IF p.recent_tag[1] \in {"h2", "h3"}
            THEN AppendTitle(p, data)
            ELSE p

\* ------------------------------------------------------------------ events
StartEv(tag, attrs) == [kind |-> "start", tag |-> tag, attrs |-> attrs, data |-> <<>>]
EndEv(tag) == [kind |-> "end", tag |-> tag, attrs |-> <<>>, data |-> <<>>]
DataEv(data) == [kind |-> "data", tag |-> "", attrs |-> <<>>, data |-> data]
NoEv == [kind |-> "none", tag |-> "", attrs |-> <<>>, data |-> <<>>]

\* One callback of the parser, as HTMLParser dispatches it.
Handle(p, e) ==
  CASE e.kind = "start" -> handle_starttag(p, e.tag, e.attrs)
    [] e.kind = "end" -> handle_endtag(p, e.tag)
    [] OTHER -> handle_data(p, e.data)

AttrChoices ==
  {<<>>, <<<<"id", "a">>>>, <<<<"id", "a">>, <<"id", "b">>>>, <<<<"class", "c">>>>}

StartEvents ==
  {StartEv("h1", <<>>), StartEv("p", <<>>)}
    \cup {StartEv(t, a) : t \in {"h2", "h3"}, a \in AttrChoices}
EndEvents == {EndEv(t) : t \in Headings \cup {"p"}}
DataEvents == {DataEv(<<"x">>), DataEv(<<"y">>)}

\* ----------------------------------------------------------------- history
\* The history the claims are stated over, kept beside the parser and written
\* from the events alone (and, for captureTo, from page_title before the event).
IsStart(e, tags) == e.kind = "start" /\ e.tag \in tags
IsEnd(e, tags) == e.kind = "end" /\ e.tag \in tags

NoHeading == [tag |-> "", node |-> <<>>]

\* The node an h2 or h3 start tag creates, counted from the tags seen so far.
NodeOf(e) ==
  IF e.tag = "h2" THEN <<Len(h3log) + 1>>
  ELSE IF e.tag = "h3" /\ h3log # <<>> THEN <<Len(h3log), Len(Last(h3log)) + 1>>
  ELSE <<>>

Record(e) ==
  /\ lastEvent' = e
  /\ prevEvent' = lastEvent
  /\ nevents' = nevents + 1
  /\ seenH23' = (seenH23 \/ IsStart(e, {"h2", "h3"}))
  /\ seenH23Titled' = (seenH23Titled \/ (IsStart(e, {"h2", "h3"}) /\ parser.page_title # None))
  /\ h3log' = IF IsStart(e, {"h2"}) THEN Append(h3log, <<>>)
              ELSE IF IsStart(e, {"h3"}) /\ h3log # <<>>
                   THEN [h3log EXCEPT ![Len(h3log)] = Append(@, IdOf(e.attrs))]
                   ELSE h3log
  /\ opened' = IF IsStart(e, Headings) THEN [tag |-> e.tag, node |-> NodeOf(e)]
               ELSE IF IsEnd(e, Headings) THEN NoHeading
               ELSE opened
  /\ captureTo' = IF IsStart(e, {"h2", "h3"}) THEN [tag |-> e.tag, node |-> NodeOf(e)]
                  ELSE IF IsStart(e, {"h1"}) /\ parser.page_title = None
                       THEN [tag |-> "h1", node |-> <<>>]
                  ELSE IF IsEnd(e, Headings) THEN NoHeading
                  ELSE captureTo

Live == ~parser.failed /\ nevents < MaxEvents

StartTag ==
  /\ Live
  /\ \E e \in StartEvents : parser' = handle_starttag(parser, e.tag, e.attrs) /\ Record(e)
  /\ UNCHANGED <<docVars, builderVars, resolverVars, extraVars>>

EndTag ==
  /\ Live
  /\ \E e \in EndEvents : parser' = handle_endtag(parser, e.tag) /\ Record(e)
  /\ UNCHANGED <<docVars, builderVars, resolverVars, extraVars>>

Data ==
  /\ Live
  /\ \E e \in DataEvents : parser' = handle_data(parser, e.data) /\ Record(e)
  /\ UNCHANGED <<docVars, builderVars, resolverVars, extraVars>>

ParserInit ==
  /\ parser = IntroParserInit
  /\ lastEvent = NoEv
  /\ prevEvent = NoEv
  /\ nevents = 0
  /\ seenH23 = FALSE
  /\ seenH23Titled = FALSE
  /\ h3log = <<>>
  /\ opened = NoHeading
  /\ captureTo = NoHeading

NoDoc == [h1 |-> 0, h2 |-> 0, h3 |-> 0, filler |-> FALSE]

NoInput ==
  /\ doc = <<>>
  /\ shape = NoDoc
  /\ pos = 1

NoBuild ==
  /\ frags = <<>>
  /\ intro = <<>>
  /\ built = None

NoCall == [pc |-> "idle", key |-> "", idx |-> 1, error |-> None, result |-> None, exc |-> None]

NoResolver ==
  /\ base_paths = <<>>
  /\ files = <<>>
  /\ cache = <<>>
  /\ builds = <<>>
  /\ ncalls = 0
  /\ call = NoCall
  /\ probes = <<>>
  /\ served = {}

NoMain == [pc |-> "off"]

NoExtra ==
  /\ calls = <<>>
  /\ prevParser = IntroParserInit
  /\ buildLog = <<>>
  /\ nbuilds = 0
  /\ main = NoMain

Init ==
  /\ ParserInit
  /\ NoInput
  /\ NoBuild
  /\ NoResolver
  /\ NoExtra

Next == StartTag \/ EndTag \/ Data

Spec == Init /\ [][Next]_vars

\* ------------------------------------------------- structured documents
\* A document of h1 level-1 headings, then h2 level-2 headings each followed by
\* h3 level-3 headings; every heading is open, text, close, and with filler a
\* <p>x</p> follows each.  The texts and ids tell the headings apart.
Rep(c, n) == [i \in 1..n |-> c]
H1Text(k) == Rep("t", k)
SecText(i) == Rep("s", i)
SubText(i, j) == Rep("s", i) \o Rep("u", j)
SecId(i) == IF i = 1 THEN "a" ELSE IF i = 2 THEN "b" ELSE "c"
SubId(i, j) == IF j = 1 THEN "d" ELSE IF j = 2 THEN "e" ELSE "f"

RECURSIVE Flatten(_)
Flatten(ss) == IF ss = <<>> THEN <<>> ELSE Head(ss) \o Flatten(Tail(ss))

Filler(f) == IF f THEN <<StartEv("p", <<>>), DataEv(<<"x">>), EndEv("p")>> ELSE <<>>

HeadingEvents(tag, attrs, text, f) ==
  <<StartEv(tag, attrs), DataEv(text), EndEv(tag)>> \o Filler(f)

SectionEvents(i, m, f) ==
  HeadingEvents("h2", <<<<"id", SecId(i)>>>>, SecText(i), f)
    \o Flatten([j \in 1..m |-> HeadingEvents("h3", <<<<"id", SubId(i, j)>>>>, SubText(i, j), f)])

MakeDoc(sh) ==
  Flatten([k \in 1..sh.h1 |-> HeadingEvents("h1", <<>>, H1Text(k), sh.filler)])
    \o Flatten([i \in 1..sh.h2 |-> SectionEvents(i, sh.h3, sh.filler)])

Shapes == [h1 : 0..MaxH1, h2 : 0..MaxH2, h3 : 0..MaxH3, filler : BOOLEAN]

DocLive == ~parser.failed /\ pos <= Len(doc)

DocStartTag ==
  /\ DocLive /\ doc[pos].kind = "start"
  /\ parser' = handle_starttag(parser, doc[pos].tag, doc[pos].attrs)
  /\ Record(doc[pos])
  /\ pos' = pos + 1
  /\ UNCHANGED <<doc, shape, builderVars, resolverVars, extraVars>>

DocEndTag ==
  /\ DocLive /\ doc[pos].kind = "end"
  /\ parser' = handle_endtag(parser, doc[pos].tag)
  /\ Record(doc[pos])
  /\ pos' = pos + 1
  /\ UNCHANGED <<doc, shape, builderVars, resolverVars, extraVars>>

DocData ==
  /\ DocLive /\ doc[pos].kind = "data"
  /\ parser' = handle_data(parser, doc[pos].data)
  /\ Record(doc[pos])
  /\ pos' = pos + 1
  /\ UNCHANGED <<doc, shape, builderVars, resolverVars, extraVars>>

DocInit ==
  /\ ParserInit
  /\ shape \in Shapes
  /\ doc = MakeDoc(shape)
  /\ pos = 1
  /\ NoBuild
  /\ NoResolver
  /\ NoExtra

DocNext == DocStartTag \/ DocEndTag \/ DocData

SpecDoc == DocInit /\ [][DocNext]_vars

DocDone == pos > Len(doc) /\ ~parser.failed

\* ------------------------------------------------------------ markup text
\* Markup is a sequence of characters.  The names the parser compares (tags,
\* attribute names, attribute values) are strings; Chars gives the characters a
\* name is written with and Name reads a name back from characters.
Names == {"h1", "h2", "h3", "p", "id", "a", "b", "a.b"}

Chars(n) ==
  CASE n = "h1" -> <<"h", "1">>
    [] n = "h2" -> <<"h", "2">>
    [] n = "h3" -> <<"h", "3">>
    [] n = "p" -> <<"p">>
    [] n = "id" -> <<"i", "d">>
    [] n = "a" -> <<"a">>
    [] n = "b" -> <<"b">>
    [] n = "a.b" -> <<"a", ".", "b">>

Name(cs) == IF \E n \in Names : Chars(n) = cs THEN CHOOSE n \in Names : Chars(n) = cs ELSE "?"

Min(S) == CHOOSE x \in S : \A y \in S : x <= y

\* The first index >= i of s that holds one of the characters cs, or 0.
Find(s, i, cs) ==
  LET at == {j \in i..Len(s) : s[j] \in cs}
  IN  IF at = {} THEN 0 ELSE Min(at)

StartsWith(s, i, pat) ==
  /\ i + Len(pat) - 1 <= Len(s)
  /\ \A k \in 1..Len(pat) : s[i + k - 1] = pat[k]

\* ------------------------------------------------- HTMLParser.feed (stdlib)
\* The characters between the separators sep, in order.
RECURSIVE Split(_, _)
Split(cs, sep) ==
  LET j == Find(cs, 1, {sep})
  IN  IF j = 0 THEN <<cs>>
      ELSE <<SubSeq(cs, 1, j - 1)>> \o Split(SubSeq(cs, j + 1, Len(cs)), sep)

\* name=value, as the (name, value) pair handle_starttag receives
AttrOf(cs) ==
  LET j == Find(cs, 1, {"="})
  IN  IF j = 0 THEN <<Name(cs), "">>
      ELSE <<Name(SubSeq(cs, 1, j - 1)), Name(SubSeq(cs, j + 1, Len(cs)))>>

\* The callback for the tag written between "<" and ">".
TagEvent(inner) ==
  IF inner # <<>> /\ Head(inner) = "/"
  THEN EndEv(Name(Tail(inner)))
  ELSE LET parts == Split(inner, " ")
       IN  StartEv(Name(Head(parts)), [k \in 1..(Len(parts) - 1) |-> AttrOf(parts[k + 1])])

\* The callbacks feed() makes for the markup from index i on: a tag runs from "<"
\* to the next ">", text runs to the next "<"; a tag that is not finished stays
\* in the parser's buffer (close() is never called).
RECURSIVE Tokenize(_, _)
Tokenize(s, i) ==
  IF i > Len(s) THEN <<>>
  ELSE IF s[i] = "<"
       THEN LET gt == Find(s, i + 1, {">"})
            IN  IF gt = 0 THEN <<>>
                ELSE <<TagEvent(SubSeq(s, i + 1, gt - 1))>> \o Tokenize(s, gt + 1)
       ELSE LET lt == Find(s, i + 1, {"<"})
                end == IF lt = 0 THEN Len(s) ELSE lt - 1
            IN  <<DataEv(SubSeq(s, i, end))>> \o Tokenize(s, end + 1)

\* parser.feed(intro): the callbacks in order, until one raises.
RECURSIVE Feed(_, _)
Feed(p, events) ==
  IF events = <<>> \/ p.failed THEN p
  ELSE Feed(Handle(p, Head(events)), Tail(events))

\* --------------------------------------------------------- _intro_regex
\* '<h1[^>.]*?>.*?</h1>' with re.DOTALL.  OpenTagEnd: after "<h1" at i, the
\* lazy [^>.]*? followed by ">" can only end at the first ">" or "." and only
\* when that is ">".  MatchEnd: then the lazy .*? runs to the first "</h1>".
IntroRegexOpen == <<"<", "h", "1">>
IntroRegexClose == <<"<", "/", "h", "1", ">">>

OpenTagEnd(s, i) ==
  LET j == Find(s, i + Len(IntroRegexOpen), {">", "."})
  IN  IF j # 0 /\ s[j] = ">" THEN j ELSE 0

\* Mutant: the open part is '<h' followed by any one character.
MatchEndAnyHeading(s, i) ==
  IF ~(StartsWith(s, i, <<"<", "h">>) /\ i + 2 <= Len(s)) THEN 0
  ELSE LET j == OpenTagEnd(s, i)
           ks == {k \in (j + 1)..Len(s) : StartsWith(s, k, IntroRegexClose)}
       IN  IF j = 0 \/ ks = {} THEN 0 ELSE Min(ks) + Len(IntroRegexClose) - 1

\* The index of the last character of the match that starts at i, or 0.
MatchEnd(s, i) ==
  IF ~StartsWith(s, i, IntroRegexOpen) THEN 0
  ELSE LET j == OpenTagEnd(s, i)
           ks == {k \in (j + 1)..Len(s) : StartsWith(s, k, IntroRegexClose)}
       IN  IF j = 0 \/ ks = {} THEN 0 ELSE Min(ks) + Len(IntroRegexClose) - 1

\* re.sub(self._intro_regex, '', intro, count=1): the leftmost match is removed.
IntroRegexSub(s) ==
  LET starts == {i \in 1..Len(s) : MatchEnd(s, i) # 0}
  IN  IF starts = {} THEN s
      ELSE LET i == Min(starts)
           IN  SubSeq(s, 1, i - 1) \o SubSeq(s, MatchEnd(s, i) + 1, Len(s))

\* ------------------------------------------------------- IntroDataSource
\* third_party.handlebar.Handlebar: the compiled template of a body.
Handlebar(body) == [source |-> body]

Raised(exc) == [status |-> exc, intro |-> Handlebar(<<>>), toc |-> <<>>, title |-> None]

\* Lines 67-72 once the parser p has been fed the markup s: the dict, or the
\* exception feed() let through.
Assemble(p, s) ==
  IF p.failed THEN Raised("IndexError")
  ELSE [status |-> "ok", intro |-> Handlebar(IntroRegexSub(s)),
        toc |-> p.toc, title |-> p.page_title]

\* _MakeIntroDict: the dict it returns, or the exception feed() let through.
MakeIntroDict(s) == Assemble(Feed(IntroParserInit, Tokenize(s, 1)), s)

\* The pieces markup is written from.
FragmentNames == {"<h1>", "<h1 id=a.b>", "</h1>", "<h2 id=a>", "</h2>", "<h3>", "T", "<p>"}

Fragment(f) ==
  CASE f = "<h1>" -> <<"<">> \o Chars("h1") \o <<">">>
    [] f = "<h1 id=a.b>" -> <<"<">> \o Chars("h1") \o <<" ">> \o Chars("id") \o <<"=">> \o Chars("a.b") \o <<">">>
    [] f = "</h1>" -> <<"<", "/">> \o Chars("h1") \o <<">">>
    [] f = "<h2 id=a>" -> <<"<">> \o Chars("h2") \o <<" ">> \o Chars("id") \o <<"=">> \o Chars("a") \o <<">">>
    [] f = "</h2>" -> <<"<", "/">> \o Chars("h2") \o <<">">>
    [] f = "<h3>" -> <<"<">> \o Chars("h3") \o <<">">>
    [] f = "T" -> <<"T">>
    [] f = "<p>" -> <<"<">> \o Chars("p") \o <<">">>

Markup(fs) == Flatten([k \in 1..Len(fs) |-> Fragment(fs[k])])

FragmentSeqs == UNION {[1..n -> FragmentNames] : n \in 0..MaxFrags}

MakeIntroDictCall ==
  /\ built = None
  /\ built' = Some(MakeIntroDict(intro))
  /\ UNCHANGED <<frags, intro, parserVars, docVars, resolverVars, extraVars>>

BuilderInit ==
  /\ ParserInit
  /\ NoInput
  /\ frags \in FragmentSeqs
  /\ intro = Markup(frags)
  /\ built = None
  /\ NoResolver
  /\ NoExtra

BuilderNext == MakeIntroDictCall

SpecBuilder == BuilderInit /\ [][BuilderNext]_vars

\* ------------------------------------------------- IntroDataSource.get
\* A path is a sequence of segments; joining with '/' is concatenation.
BaseNames == {<<"A">>, <<"B">>}
Keys == {"tabs", "tabs.html", "windows"}

\* docs_server_utils.FormatKey: the key with one .html extension.
FormatKey(key) == IF key = "windows" THEN <<"windows.html">> ELSE <<"tabs.html">>

\* base_path + '/' + real_path
FilePath(base_path, real_path) == base_path \o real_path

Paths == {FilePath(b, FormatKey(k)) : b \in BaseNames, k \in Keys}

\* What a file may hold: two documents that build and one that does not (its h3
\* comes before any h2).
ContentNames == {"titled", "untitled", "h3first"}

Content(c) ==
  CASE c = "titled" -> <<"<h1>", "T", "</h1>", "<h2 id=a>", "T", "</h2>">>
    [] c = "untitled" -> <<"<h2 id=a>", "T", "</h2>", "<h3>", "T">>
    [] c = "h3first" -> <<"<h3>", "T">>

\* file_system.FileNotFoundError for a path; str() of it names the path.
FileNotFoundError(path) == path

\* Mutant: nothing is kept, every lookup of an existing file builds.
GetFromFileNoCache(path) ==
  IF files[path] = "missing"
  THEN [kind |-> "FileNotFoundError", value |-> Raised("FileNotFoundError"), ran |-> FALSE]
  ELSE LET a == MakeIntroDict(Markup(Content(files[path])))
       IN  [kind |-> IF a.status = "ok" THEN "value" ELSE "raise", value |-> a, ran |-> TRUE]

\* _cache.GetFromFile(path): the cached artifact; else the file is read (which
\* raises FileNotFoundError when it is missing) and the artifact is built by
\* _MakeIntroDict and kept; an exception of the build is let through.
GetFromFile(path) ==
  IF cache[path] # None
  THEN [kind |-> "value", value |-> cache[path][1], ran |-> FALSE]
  ELSE IF files[path] = "missing"
  THEN [kind |-> "FileNotFoundError", value |-> Raised("FileNotFoundError"), ran |-> FALSE]
  ELSE LET a == MakeIntroDict(Markup(Content(files[path])))
       IN  [kind |-> IF a.status = "ok" THEN "value" ELSE "raise", value |-> a, ran |-> TRUE]

\* Mutant: the first error caught is kept, not the last.
AfterFileNotFoundFirst(c, path) ==
  [c EXCEPT !.error = IF c.error = None THEN Some(FileNotFoundError(path)) ELSE c.error,
            !.idx = c.idx + 1]

\* Mutant: the error is not caught.
AfterFileNotFoundRaise(c, path) ==
  [c EXCEPT !.pc = "raised",
            !.exc = Some([cls |-> "FileNotFoundError", detail |-> Some(FileNotFoundError(path)),
                          key |-> c.key])]

\* except FileNotFoundError as error: pass   (and the loop goes on)
AfterFileNotFound(c, path) ==
  [c EXCEPT !.error = Some(FileNotFoundError(path)), !.idx = c.idx + 1]

\* Mutant: the loop goes on after a lookup has returned.
ReturnAndGoOn(c, value) == [c EXCEPT !.result = Some(value), !.idx = c.idx + 1]

\* return self._cache.GetFromFile(...): the call ends with the cached artifact
Return(c, value) == [c EXCEPT !.pc = "returned", !.result = Some(value)]

\* Mutant: every exception of a lookup is caught, as file-not-found is.
PropagateCaught(c, cls) == [c EXCEPT !.error = Some(<<cls>>), !.idx = c.idx + 1]

\* An exception the except clause does not name leaves get as it is.
Propagate(c, cls) ==
  [c EXCEPT !.pc = "raised", !.exc = Some([cls |-> cls, detail |-> None, key |-> c.key])]

\* raise ValueError(str(error) + ': No intro found for "%s".' % key)
NoIntroFound(c) == [cls |-> "ValueError", detail |-> c.error, key |-> c.key]

\* real_path = FormatKey(key); error = None; and the loop is entered
GetCall ==
  /\ call.pc # "probing"
  /\ ncalls < MaxCalls
  /\ \E key \in Keys : call' = [NoCall EXCEPT !.pc = "probing", !.key = key]
  /\ ncalls' = ncalls + 1
  /\ probes' = <<>>
  /\ UNCHANGED <<base_paths, files, cache, builds, served, parserVars, docVars, builderVars, extraVars>>

\* One turn of the loop: return self._cache.GetFromFile(base_path + '/' + real_path)
Probe ==
  /\ call.pc = "probing"
  /\ call.idx <= Len(base_paths)
  /\ LET path == FilePath(base_paths[call.idx], FormatKey(call.key))
         got == GetFromFile(path)
     IN  /\ probes' = Append(probes, path)
         /\ builds' = IF got.ran THEN [builds EXCEPT ![path] = @ + 1] ELSE builds
         /\ cache' = IF got.kind = "value" THEN [cache EXCEPT ![path] = Some(got.value)] ELSE cache
         /\ served' = IF got.kind = "value"
                       THEN served \cup {[path |-> path, build |-> builds'[path],
                                          call |-> ncalls, key |-> call.key]}
                       ELSE served
         /\ call' = CASE got.kind = "value" -> Return(call, got.value)
                      [] got.kind = "FileNotFoundError" -> AfterFileNotFound(call, path)
                      [] OTHER -> Propagate(call, got.value.status)
  /\ UNCHANGED <<base_paths, files, ncalls, parserVars, docVars, builderVars, extraVars>>

\* The loop ran out of base paths: the raise on line 85.
Exhausted ==
  /\ call.pc = "probing"
  /\ call.idx > Len(base_paths)
  /\ call' = [call EXCEPT !.pc = "raised", !.exc = Some(NoIntroFound(call))]
  /\ UNCHANGED <<base_paths, files, cache, builds, ncalls, probes, served,
                 parserVars, docVars, builderVars, extraVars>>

BaseLists == UNION {[1..n -> BaseNames] : n \in 0..MaxBases}

ResolverInit ==
  /\ ParserInit
  /\ NoInput
  /\ NoBuild
  /\ base_paths \in BaseLists
  /\ files \in [Paths -> {"missing"} \cup ContentNames]
  /\ cache = [path \in Paths |-> None]
  /\ builds = [path \in Paths |-> 0]
  /\ ncalls = 0
  /\ call = NoCall
  /\ probes = <<>>
  /\ served = {}
  /\ NoExtra

ResolverNext == GetCall \/ Probe \/ Exhausted

SpecResolver == ResolverInit /\ [][ResolverNext]_vars

\* ------------------------------------------------ a sequence of builds
\* One IntroDataSource builds one markup after another.  prevParser is the
\* _IntroParser object of the build before, which the next build may not see.
MaxBuilds == 3

BuildInputs == {Content(c) : c \in ContentNames} \cup {<<"<h1>", "T">>, <<>>}

\* Mutant: toc is an attribute of the class, so the new object starts with the
\* list the object before it filled.
NewIntroParserSharedToc(prev) == [IntroParserInit EXCEPT !.toc = prev.toc]

\* parser = _IntroParser(): __init__ sets every field on the new object
NewIntroParser(prev) == IntroParserInit

\* _MakeIntroDict, run after the builds before it.
MakeIntroDictAgain ==
  /\ nbuilds < MaxBuilds
  /\ \E fs \in BuildInputs :
       LET s == Markup(fs)
           p == Feed(NewIntroParser(prevParser), Tokenize(s, 1))
       IN  /\ frags' = fs
           /\ intro' = s
           /\ built' = Some(Assemble(p, s))
           /\ prevParser' = p
           /\ buildLog' = Append(buildLog, [intro |-> s, result |-> Assemble(p, s)])
  /\ nbuilds' = nbuilds + 1
  /\ UNCHANGED <<calls, main, parserVars, docVars, resolverVars>>

BuildsInit ==
  /\ ParserInit
  /\ NoInput
  /\ NoBuild
  /\ NoResolver
  /\ NoExtra

BuildsNext == MakeIntroDictAgain

SpecBuilds == BuildsInit /\ [][BuildsNext]_vars

\* ------------------------------------------------- concurrent get calls
\* Two callers share one IntroDataSource.  A cache entry is None, the artifact,
\* or the mark of a build in progress, which holds the lock of its path.
Callers == {1, 2}

InProgress == Some(Raised("building"))

\* Mutant: the lock of a build in progress is not honoured, the entry is served.
CacheLookupNoLock(entry, file) ==
  IF entry # None THEN "hit"
  ELSE IF file = "missing" THEN "FileNotFoundError"
  ELSE "build"

\* What a lookup finds: the artifact kept, a build by another caller to wait
\* for, no file, or a file to build.
CacheLookup(entry, file) ==
  IF entry # None THEN (IF entry = InProgress THEN "wait" ELSE "hit")
  ELSE IF file = "missing" THEN "FileNotFoundError"
  ELSE "build"

PathOf(c) == FilePath(base_paths[c.idx], FormatKey(c.key))

\* def get(self, key): up to the loop
ConcGetCall(t) ==
  /\ calls[t].pc = "idle"
  /\ \E key \in Keys : calls' = [calls EXCEPT ![t] = [NoCall EXCEPT !.pc = "probing", !.key = key]]
  /\ UNCHANGED <<base_paths, files, cache, builds, ncalls, call, probes, served>>
  /\ UNCHANGED <<prevParser, buildLog, nbuilds, main, parserVars, docVars, builderVars>>

\* One turn of the loop, up to the answer of the cache or the start of a build.
ConcProbe(t) ==
  /\ calls[t].pc = "probing"
  /\ calls[t].idx <= Len(base_paths)
  /\ LET c == calls[t]
         path == PathOf(c)
         found == CacheLookup(cache[path], files[path])
     IN  /\ found # "wait"
         /\ calls' = [calls EXCEPT ![t] =
                        CASE found = "hit" -> Return(c, cache[path][1])
                          [] found = "FileNotFoundError" -> AfterFileNotFound(c, path)
                          [] OTHER -> [c EXCEPT !.pc = "building"]]
         /\ cache' = IF found = "build" THEN [cache EXCEPT ![path] = InProgress] ELSE cache
         /\ builds' = IF found = "build" THEN [builds EXCEPT ![path] = @ + 1] ELSE builds
         /\ served' = IF found = "hit"
                       THEN served \cup {[path |-> path, build |-> builds[path],
                                          call |-> t, key |-> c.key]}
                       ELSE served
  /\ UNCHANGED <<base_paths, files, ncalls, call, probes>>
  /\ UNCHANGED <<prevParser, buildLog, nbuilds, main, parserVars, docVars, builderVars>>

\* The build this caller started ends: _MakeIntroDict returns or raises.
ConcBuilt(t) ==
  /\ calls[t].pc = "building"
  /\ LET c == calls[t]
         path == PathOf(c)
         a == MakeIntroDict(Markup(Content(files[path])))
     IN  /\ calls' = [calls EXCEPT ![t] = IF a.status = "ok" THEN Return(c, a)
                                          ELSE Propagate(c, a.status)]
         /\ cache' = [cache EXCEPT ![path] = IF a.status = "ok" THEN Some(a) ELSE None]
         /\ served' = IF a.status = "ok"
                       THEN served \cup {[path |-> path, build |-> builds[path],
                                          call |-> t, key |-> c.key]}
                       ELSE served
  /\ UNCHANGED <<base_paths, files, builds, ncalls, call, probes>>
  /\ UNCHANGED <<prevParser, buildLog, nbuilds, main, parserVars, docVars, builderVars>>

ConcExhausted(t) ==
  /\ calls[t].pc = "probing"
  /\ calls[t].idx > Len(base_paths)
  /\ calls' = [calls EXCEPT ![t] = [@ EXCEPT !.pc = "raised", !.exc = Some(NoIntroFound(calls[t]))]]
  /\ UNCHANGED <<base_paths, files, cache, builds, ncalls, call, probes, served>>
  /\ UNCHANGED <<prevParser, buildLog, nbuilds, main, parserVars, docVars, builderVars>>

ConcurrentInit ==
  /\ ParserInit
  /\ NoInput
  /\ NoBuild
  /\ base_paths \in BaseLists
  /\ files \in [Paths -> {"missing"} \cup ContentNames]
  /\ cache = [path \in Paths |-> None]
  /\ builds = [path \in Paths |-> 0]
  /\ ncalls = 0
  /\ call = NoCall
  /\ probes = <<>>
  /\ served = {}
  /\ calls = [t \in Callers |-> NoCall]
  /\ prevParser = IntroParserInit
  /\ buildLog = <<>>
  /\ nbuilds = 0
  /\ main = NoMain

ConcurrentNext ==
  \E t \in Callers : ConcGetCall(t) \/ ConcProbe(t) \/ ConcBuilt(t) \/ ConcExhausted(t)

SpecConcurrent == ConcurrentInit /\ [][ConcurrentNext]_vars

\* ------------------------------------------ run_all_tests.py: main()
\* chrome/test/chromedriver/test/run_all_tests.py from line 156 on.  A suite is
\* one util.RunCommand, whose exit code is the input of the step.
ExitCodes == {0, 1, 2}

\* versions = [['HEAD', ...], ['29', ...], ['28', ...], ['27', ...]]
Versions == <<"HEAD", "29", "28", "27">>

\* --chrome-version: not given, one of the versions, or one that is not listed
ChromeVersionOptions == {"", "HEAD", "29", "28", "27", "26"}

\* Python's a or b on exit codes
Or(a, b) == IF a # 0 THEN a ELSE b

\* Mutant: the code of the versions before is dropped.
AccumulateLast(code, code1, code2) == Or(code1, code2)

\* code = code or code1 or code2
Accumulate(code, code1, code2) == Or(Or(code, code1), code2)

\* if options.chrome_version and version[0] != options.chrome_version: continue
Skipped(version, chrome_version) == chrome_version # "" /\ version # chrome_version

Ran(suite, version, code) == [suite |-> suite, version |-> version, code |-> code]

MainUnchanged ==
  UNCHANGED <<calls, prevParser, buildLog, nbuilds, parserVars, docVars, builderVars, resolverVars>>

\* if options.android_package: ... else: ... code = 0
Branch ==
  /\ main.pc = "start"
  /\ main' = [main EXCEPT !.pc = IF main.android THEN "android_python" ELSE "loop", !.code = 0]
  /\ MainUnchanged

\* code1 = RunPythonTests(chromedriver, ref_chromedriver, android_package=...)
AndroidPython ==
  /\ main.pc = "android_python"
  /\ \E c \in ExitCodes :
       main' = [main EXCEPT !.pc = "android_java", !.code1 = c,
                            !.ran = Append(@, Ran("python", "android", c))]
  /\ MainUnchanged

\* code2 = RunJavaTests(chromedriver, android_package=...); return code1 or code2
AndroidJava ==
  /\ main.pc = "android_java"
  /\ \E c \in ExitCodes :
       main' = [main EXCEPT !.pc = "returned", !.code2 = c,
                            !.ran = Append(@, Ran("java", "android", c)),
                            !.ret = Some(Or(main.code1, c))]
  /\ MainUnchanged

\* for version in versions: the version is passed over (continue)
LoopSkip ==
  /\ main.pc = "loop"
  /\ main.i <= Len(Versions)
  /\ Skipped(Versions[main.i], main.chrome_version)
  /\ main' = [main EXCEPT !.i = @ + 1]
  /\ MainUnchanged

\* chrome_path = DownloadChrome(version_name, version[1], download_site)
Download ==
  /\ main.pc = "loop"
  /\ main.i <= Len(Versions)
  /\ ~Skipped(Versions[main.i], main.chrome_version)
  /\ main' = [main EXCEPT !.pc = "python", !.downloads = Append(@, Versions[main.i])]
  /\ MainUnchanged

\* code1 = RunPythonTests(..., chrome=chrome_path, chrome_version=version[0], ...)
DesktopPython ==
  /\ main.pc = "python"
  /\ \E c \in ExitCodes :
       main' = [main EXCEPT !.pc = "java", !.code1 = c,
                            !.ran = Append(@, Ran("python", Versions[main.i], c))]
  /\ MainUnchanged

\* code2 = RunJavaTests(...); code = code or code1 or code2; and the next version
DesktopJava ==
  /\ main.pc = "java"
  /\ \E c \in ExitCodes :
       main' = [main EXCEPT !.pc = "loop", !.code2 = c, !.i = @ + 1,
                            !.ran = Append(@, Ran("java", Versions[main.i], c)),
                            !.code = Accumulate(main.code, main.code1, c)]
  /\ MainUnchanged

\* return RunCppTests(cpp_tests) or code
Cpp ==
  /\ main.pc = "loop"
  /\ main.i > Len(Versions)
  /\ \E c \in ExitCodes :
       main' = [main EXCEPT !.pc = "returned",
                            !.ran = Append(@, Ran("cpp", "", c)),
                            !.ret = Some(Or(c, main.code))]
  /\ MainUnchanged

MainInit ==
  /\ ParserInit
  /\ NoInput
  /\ NoBuild
  /\ NoResolver
  /\ calls = <<>>
  /\ prevParser = IntroParserInit
  /\ buildLog = <<>>
  /\ nbuilds = 0
  /\ \E android \in BOOLEAN, chrome_version \in ChromeVersionOptions :
       main = [pc |-> "start", android |-> android, chrome_version |-> chrome_version,
               i |-> 1, code |-> 0, code1 |-> 0, code2 |-> 0,
               downloads |-> <<>>, ran |-> <<>>, ret |-> None]

MainNext ==
  Branch \/ AndroidPython \/ AndroidJava \/ LoopSkip \/ Download \/ DesktopPython
    \/ DesktopJava \/ Cpp

SpecMain == MainInit /\ [][MainNext]_vars

\* ------------------------------------------------------------------ claims
ExpectedSub(i, j) == [link |-> SubId(i, j), title |-> SubText(i, j)]
ExpectedSection(i, m) ==
  [link |-> SecId(i), subheadings |-> [j \in 1..m |-> ExpectedSub(i, j)], title |-> SecText(i)]

\* C1: a document of one level-1 heading followed by N level-2 headings, each
\* followed by M level-3 headings, ends with N toc entries in document order,
\* each with its M subheadings in document order, and page_title the text of the
\* level-1 heading.
C1_OneH1ThenSections ==
  (DocDone /\ shape.h1 = 1) =>
    /\ parser.toc = [i \in 1..shape.h2 |-> ExpectedSection(i, shape.h3)]
    /\ parser.page_title = Some(H1Text(1))

C1_Witness ==
  /\ DocDone /\ shape.h1 = 1 /\ shape.h2 = 2 /\ shape.h3 = 2 /\ shape.filler
  /\ Len(parser.toc) = 2 /\ Len(parser.toc[2].subheadings) = 2

\* C2: in every state the subheadings of section i are exactly the h3 tags that
\* opened while section i was the last entry of toc, in the order they opened.
C2_SubheadingsInLastSection ==
  /\ Len(parser.toc) = Len(h3log)
  /\ \A i \in 1..Len(parser.toc) :
       [j \in 1..Len(parser.toc[i].subheadings) |-> parser.toc[i].subheadings[j].link] = h3log[i]

C2_Witness ==
  /\ Len(parser.toc) = 2
  /\ Len(parser.toc[1].subheadings) = 1
  /\ Len(parser.toc[2].subheadings) = 1

\* C3 as claimed: once an h2 or h3 tag has opened, no later event changes
\* page_title (a later h1 open followed by text included, also when page_title
\* is still absent).
C3_Original == [][seenH23 => parser'.page_title = parser.page_title]_vars

\* C3 as amended: once an h2 or h3 tag has opened while page_title is present,
\* no later event changes page_title (a later h1 open followed by text included).
C3_TitleClosedOncePresent ==
  [][seenH23Titled => parser'.page_title = parser.page_title]_vars

C3_Witness ==
  /\ seenH23Titled
  /\ prevEvent = StartEv("h1", <<>>) /\ lastEvent.kind = "data"

\* C4 as claimed: after several level-1 headings (each open, text, close) the
\* page_title is the concatenation of the texts of all of them.
C4_Original ==
  (DocDone /\ shape.h1 >= 2) =>
    parser.page_title = Some(Flatten([k \in 1..shape.h1 |-> H1Text(k)]))

\* C4 as amended: after several level-1 headings (each open, text, close) the
\* page_title is the text of the first of them alone.
C4_TitleIsFirstH1 ==
  (DocDone /\ shape.h1 >= 2) => parser.page_title = Some(H1Text(1))

C4_Witness == DocDone /\ shape.h1 = 2 /\ shape.h2 >= 1 /\ parser.page_title # None

\* What a text event is to leave behind when it is captured into target t.
Captured(p, t, data) ==
  CASE t.tag = "h1" ->
         [toc |-> p.toc,
          page_title |-> Some((IF p.page_title = None THEN <<>> ELSE p.page_title[1]) \o data)]
    [] t.tag = "h2" ->
         [toc |-> [p.toc EXCEPT ![t.node[1]].title = @ \o data], page_title |-> p.page_title]
    [] t.tag = "h3" ->
         [toc |-> [p.toc EXCEPT ![t.node[1]].subheadings[t.node[2]].title = @ \o data],
          page_title |-> p.page_title]
    [] OTHER -> [toc |-> p.toc, page_title |-> p.page_title]

Outputs(p) == [toc |-> p.toc, page_title |-> p.page_title]

\* C5 as claimed: a text event that arrives while a heading is open (none has
\* closed since the last one opened) is appended to page_title when that heading
\* is an h1 and to the title of the node that heading created when it is an h2
\* or h3, and changes nothing else.
C5_Original ==
  [][(lastEvent'.kind = "data" /\ opened.tag # "") =>
       Outputs(parser') = Captured(parser, opened, lastEvent'.data)]_vars

\* C5 as amended: the target is the node of the last h2 or h3 opened, or
\* page_title for an h1 that opened while page_title was absent; an h1 that opens
\* while page_title is present leaves the target as it was before that tag.
C5_TextGoesToCaptureTarget ==
  [][(lastEvent'.kind = "data" /\ opened.tag # "") =>
       Outputs(parser') = Captured(parser, captureTo, lastEvent'.data)]_vars

C5_Witness ==
  /\ lastEvent.kind = "data" /\ opened.tag = "h1" /\ captureTo.tag = "h2"
  /\ parser.toc[1].title # <<>> /\ parser.page_title # None

\* C6: a text event that arrives when no heading has opened since the last
\* heading closed, or before any heading opened, leaves toc and page_title
\* unchanged.
C6_NoCaptureAfterClose ==
  [][(lastEvent'.kind = "data" /\ opened.tag = "") => Outputs(parser') = Outputs(parser)]_vars

C6_Witness ==
  /\ prevEvent = EndEv("h2") /\ lastEvent.kind = "data"
  /\ parser.toc # <<>> /\ parser.toc[1].title # <<>>

\* The level-1 heading block of the claims, read off the fragments the markup
\* was written from: the first h1 open tag, whatever its attributes, through
\* the first h1 close tag after it.
IsH1Open(f) == f \in {"<h1>", "<h1 id=a.b>"}
IsH1Close(f) == f = "</h1>"
H1Opens(fs) == {k \in 1..Len(fs) : IsH1Open(fs[k])}
H1Closes(fs, a) == {k \in (a + 1)..Len(fs) : IsH1Close(fs[k])}
HasH1Block(fs) == H1Opens(fs) # {} /\ H1Closes(fs, Min(H1Opens(fs))) # {}

WithoutFirstH1Block(fs) ==
  IF ~HasH1Block(fs) THEN fs
  ELSE LET a == Min(H1Opens(fs))
           b == Min(H1Closes(fs, a))
       IN  SubSeq(fs, 1, a - 1) \o SubSeq(fs, b + 1, Len(fs))

Returned == built # None /\ built[1].status = "ok"

\* C7: the body _MakeIntroDict hands to the template compiler is the markup
\* with exactly its first level-1 heading block removed, whatever attributes the
\* open tag carries; a second block stays in the body.
C7_Original ==
  Returned => built[1].intro = Handlebar(Markup(WithoutFirstH1Block(frags)))

\* C8 as claimed: markup without a level-1 heading block is compiled unchanged
\* and the title returned is None.
C8_Original ==
  (Returned /\ ~HasH1Block(frags)) =>
    (built[1].intro = Handlebar(intro) /\ built[1].title = None)

\* C8 as amended: markup without a level-1 heading block is compiled unchanged;
\* the title returned is None when the markup holds no level-1 open tag at all.
C8_NoH1TagNoTitle ==
  Returned =>
    /\ ~HasH1Block(frags) => built[1].intro = Handlebar(intro)
    /\ H1Opens(frags) = {} => built[1].title = None

C8_Witness ==
  /\ Returned /\ H1Opens(frags) = {}
  /\ \E k \in 1..Len(frags) : frags[k] = "</h1>"
  /\ \E k \in 1..Len(frags) : frags[k] = "T"
  /\ built[1].toc # <<>>

Done == call.pc \in {"returned", "raised"}

\* The base paths, by position, under which the file of the key exists.
Existing(key) ==
  {i \in 1..Len(base_paths) : files[FilePath(base_paths[i], FormatKey(key))] # "missing"}

FirstExisting(key) == FilePath(base_paths[Min(Existing(key))], FormatKey(key))

\* C9 as claimed: when the file exists under some base path, get returns,
\* without raising, the artifact of the first base path that has it.
C9_Original ==
  (Done /\ Existing(call.key) # {}) =>
    /\ call.pc = "returned"
    /\ call.result = Some(MakeIntroDict(Markup(Content(files[FirstExisting(call.key)]))))

\* C9 as amended: when the file exists under some base path, get gives what
\* building the file of the first base path that has it gives: it returns that
\* artifact, or lets the exception of that build through; the base paths before
\* it, which lack the file, do not make it raise.
C9_FirstExistingWins ==
  (Done /\ Existing(call.key) # {}) =>
    LET a == MakeIntroDict(Markup(Content(files[FirstExisting(call.key)])))
    IN  IF a.status = "ok"
        THEN call.pc = "returned" /\ call.result = Some(a) /\ call.exc = None
        ELSE call.pc = "raised" /\ call.result = None /\ call.exc # None
             /\ call.exc[1].cls = a.status

C9_Witness ==
  /\ call.pc = "returned" /\ call.result # None
  /\ Existing(call.key) # {} /\ Min(Existing(call.key)) = 2

\* C10: when no base path has the file, get raises the resolver's own error
\* (a ValueError) that names the key as it was given and carries the detail of
\* the FileNotFoundError of the last base path; nothing is returned.
C10_ExhaustedRaises ==
  (Done /\ Existing(call.key) = {}) =>
    /\ call.pc = "raised"
    /\ call.result = None
    /\ call.exc =
         Some([cls |-> "ValueError",
               detail |-> IF base_paths = <<>> THEN None
                          ELSE Some(FileNotFoundError(FilePath(Last(base_paths), FormatKey(call.key)))),
               key |-> call.key])

C10_Witness ==
  /\ call.pc = "raised" /\ call.exc # None /\ call.exc[1].cls = "ValueError"
  /\ Len(base_paths) = 2 /\ base_paths[1] # base_paths[2]
  /\ Len(probes) = 2

\* C11: an exception of a lookup that is not file-not-found (here the IndexError
\* of a build whose markup has an h3 before any h2) leaves get at once and as it
\* is: the call raises that exception, not the resolver's ValueError, and the
\* base path that raised is the last one probed.
C11_OtherErrorPropagates ==
  (Done /\ Existing(call.key) # {} /\ files[FirstExisting(call.key)] = "h3first") =>
    /\ call.pc = "raised"
    /\ call.result = None
    /\ call.exc = Some([cls |-> "IndexError", detail |-> None, key |-> call.key])
    /\ Len(probes) = Min(Existing(call.key))
    /\ Last(probes) = FirstExisting(call.key)

C11_Witness ==
  /\ call.pc = "raised" /\ call.exc # None /\ call.exc[1].cls = "IndexError"
  /\ Len(base_paths) = 2 /\ Len(probes) = 1
  /\ Existing(call.key) = {1, 2}
  /\ files[FilePath(base_paths[2], FormatKey(call.key))] = "titled"

\* One artifact instance per path: two artifacts returned for one path come
\* from one build.
SameInstance == \A s, t \in served : s.path = t.path => s.build = t.build

ConcDone(t) == calls[t].pc \in {"returned", "raised"}

C14_SameMarkupSameResult ==
  \A i, j \in 1..Len(buildLog) :
    buildLog[i].intro = buildLog[j].intro =>
      /\ buildLog[i].result.status = buildLog[j].result.status
      /\ buildLog[i].result.toc = buildLog[j].result.toc
      /\ buildLog[i].result.title = buildLog[j].result.title

\* A markup with headings was built, another one after it, and the first again.
C14_Witness ==
  /\ Len(buildLog) = 3
  /\ buildLog[1].intro = buildLog[3].intro
  /\ buildLog[1].intro # buildLog[2].intro
  /\ buildLog[1].result.toc # <<>>
  /\ buildLog[2].result.toc # <<>>

\* The markup has an h3 start tag that no h2 start tag precedes.
H3BeforeAnyH2(fs) ==
  \E k \in 1..Len(fs) : fs[k] = "<h3>" /\ \A j \in 1..(k - 1) : fs[j] # "<h2 id=a>"

\* C15: when an h3 opens while toc holds no section, the parse fails with an
\* error (IndexError): the parser stops with toc still empty, no section made up
\* and no subheading kept or passed over, and _MakeIntroDict returns no dict
\* for that markup but lets the error through.
C15_OrphanH3Fails ==
  (built # None /\ H3BeforeAnyH2(frags)) =>
    LET p == Feed(IntroParserInit, Tokenize(intro, 1))
    IN  /\ p.failed
        /\ p.toc = <<>>
        /\ built[1].status = "IndexError"
        /\ built[1] = Raised("IndexError")

\* The h3 comes after plain text and before an h2 with its text.
C15_Witness ==
  /\ built # None
  /\ Len(frags) = 4
  /\ frags[1] = "T" /\ frags[2] = "<h3>" /\ frags[3] = "<h2 id=a>" /\ frags[4] = "T"

\* The path get hands to the cache for the i-th base path.
ProbePath(i) == FilePath(base_paths[i], FormatKey(call.key))

\* C16: within one get call the base paths are probed in their configured
\* order, one probe each: the i-th probe is of base path i, every probe but the
\* last reported file-not-found, a call that returned was not missing its last
\* probe's file and probed no further, and a call that ran out of base paths
\* probed them all.
C16_ProbesInOrder ==
  /\ Len(probes) <= Len(base_paths)
  /\ \A i \in 1..Len(probes) : probes[i] = ProbePath(i)
  /\ \A i \in 1..(Len(probes) - 1) : files[probes[i]] = "missing"
  /\ call.pc = "probing" => (call.idx = Len(probes) + 1 /\ \A i \in 1..Len(probes) : files[probes[i]] = "missing")
  /\ call.pc = "returned" => (probes # <<>> /\ files[Last(probes)] # "missing")
  /\ (call.pc = "raised" /\ call.exc[1].cls = "ValueError") => Len(probes) = Len(base_paths)

\* The second call returned from a base path although a later one has the file
\* too.
C16_Witness ==
  /\ call.pc = "returned"
  /\ Len(probes) < Len(base_paths)
  /\ files[ProbePath(Len(probes) + 1)] # "missing"
  /\ ncalls = 2

\* The number of h2 start tags processed (one entry of h3log for each).
H2Opens == Len(h3log)

\* C17: the start or end of a tag that is not h1, h2 or h3 leaves the whole
\* parser (toc, page_title, _recent_tag, _current_heading) as it was; an h1
\* start tag and every end tag leave toc as it was; so after every event toc has
\* one entry for each h2 start tag processed.
C17_OtherTagsInert ==
  [][/\ ((lastEvent'.kind \in {"start", "end"} /\ lastEvent'.tag \notin Headings) => parser' = parser)
     /\ ((IsStart(lastEvent', {"h1"}) \/ lastEvent'.kind = "end") => parser'.toc = parser.toc)
     /\ Len(parser'.toc) = H2Opens']_vars

\* A p opened and closed inside an open h2 whose text is being captured, after
\* an h1.
C17_Witness ==
  /\ IsEnd(lastEvent, {"p"})
  /\ IsStart(prevEvent, {"p"})
  /\ parser.recent_tag = Some("h2")
  /\ parser.page_title # None
  /\ Len(parser.toc) = 1

\* The values of the id attributes of a start tag.
IdValues(attrs) == {attrs[i][2] : i \in {j \in 1..Len(attrs) : attrs[j][1] = "id"}}

\* The anchor of a node made from these attributes: the value of the id
\* attribute (of the last one, should the tag repeat it), or the empty string
\* when there is none.
AnchorFits(link, attrs) ==
  LET at == {j \in 1..Len(attrs) : attrs[j][1] = "id"}
  IN  IF at = {} THEN link = ""
      ELSE \E j \in at : link = attrs[j][2] /\ \A k \in at : k <= j

\* C18: the step of an h2 start tag appends a section with an empty title, no
\* subheadings and the anchor of the tag's id attribute ("" without one); the
\* step of an h3 start tag, when toc has a section, appends to the last section
\* a subheading with an empty title and the anchor of the tag's id attribute.
C18_NewNodeIsBlank ==
  [][/\ IsStart(lastEvent', {"h2"}) =>
          /\ Len(parser'.toc) = Len(parser.toc) + 1
          /\ Last(parser'.toc).title = <<>>
          /\ Last(parser'.toc).subheadings = <<>>
          /\ AnchorFits(Last(parser'.toc).link, lastEvent'.attrs)
     /\ (IsStart(lastEvent', {"h3"}) /\ parser.toc # <<>>) =>
          /\ Len(Last(parser'.toc).subheadings) = Len(Last(parser.toc).subheadings) + 1
          /\ Last(Last(parser'.toc).subheadings).title = <<>>
          /\ AnchorFits(Last(Last(parser'.toc).subheadings).link, lastEvent'.attrs)]_vars

\* An h3 with an id opened under a section that has an id and a title.
C18_Witness ==
  /\ IsStart(lastEvent, {"h3"})
  /\ IdValues(lastEvent.attrs) = {"a"}
  /\ Len(parser.toc) = 1
  /\ parser.toc[1].link = "a"
  /\ parser.toc[1].title # <<>>
  /\ Len(parser.toc[1].subheadings) = 1
  /\ parser.toc[1].subheadings[1] = [link |-> "a", title |-> <<>>]

IsPrefix(s, t) == Len(s) <= Len(t) /\ SubSeq(t, 1, Len(s)) = s

\* A sequence of nodes grows by at most one node at its end and all its nodes
\* but the last are as they were.
GrowsAtEnd(old, new) ==
  /\ Len(new) \in {Len(old), Len(old) + 1}
  /\ \A k \in 1..(Len(old) - 1) : new[k] = old[k]

\* C19: toc only grows at its end and only its newest node can be written.
\* Over any step no section or subheading goes away or changes place: toc and
\* the subheadings of its last section grow at their end by at most one node,
\* and only on an h2 or h3 start tag.  The newest node (the last subheading of
\* the last section, or the last section when it has none) keeps its anchor and
\* can only have text added to its title, and only by a text event; every other
\* node keeps its title and anchor, and so does the newest until then when a
\* node is made.
C19_AppendOnlyNewestWritable ==
  [][LET m == Len(parser.toc)
     IN  /\ GrowsAtEnd(parser.toc, parser'.toc)
         /\ Len(parser'.toc) > m => IsStart(lastEvent', {"h2"})
         /\ (m > 0 /\ Len(parser'.toc) > m) => parser'.toc[m] = parser.toc[m]
         /\ (m > 0 /\ lastEvent'.kind # "data" /\ ~IsStart(lastEvent', {"h3"})) =>
               parser'.toc[m] = parser.toc[m]
         /\ m > 0 =>
               LET sec == parser.toc[m]
                   sec2 == parser'.toc[m]
                   k == Len(sec.subheadings)
               IN  /\ sec2.link = sec.link
                   /\ GrowsAtEnd(sec.subheadings, sec2.subheadings)
                   /\ Len(sec2.subheadings) > k =>
                         /\ IsStart(lastEvent', {"h3"})
                         /\ sec2.title = sec.title
                         /\ k > 0 => sec2.subheadings[k] = sec.subheadings[k]
                   /\ IF k = 0 THEN IsPrefix(sec.title, sec2.title)
                      ELSE /\ sec2.title = sec.title
                           /\ sec2.subheadings[k].link = sec.subheadings[k].link
                           /\ IsPrefix(sec.subheadings[k].title, sec2.subheadings[k].title)]_vars

\* Text arrived under the second subheading of a section whose own title and
\* first subheading already have text: it went to the newest node only.
C19_Witness ==
  /\ lastEvent.kind = "data"
  /\ Len(parser.toc) = 1
  /\ parser.toc[1].title # <<>>
  /\ Len(parser.toc[1].subheadings) = 2
  /\ parser.toc[1].subheadings[1].title = <<>>
  /\ parser.toc[1].subheadings[2].title # <<>>

\* The suites a run of main is to make, in order, for its options.
ExpectedSuites ==
  IF main.android THEN <<<<"python", "android">>, <<"java", "android">>>>
  ELSE Flatten([k \in 1..Len(Versions) |->
                  IF main.chrome_version \in {"", Versions[k]}
                  THEN <<<<"python", Versions[k]>>, <<"java", Versions[k]>>>>
                  ELSE <<>>])
       \o <<<<"cpp", "">>>>

SuitesRan == [k \in 1..Len(main.ran) |-> <<main.ran[k].suite, main.ran[k].version>>]

\* C20: main runs the suites its options select, each once and in order,
\* whatever the suites before returned: Python then Java on Android; on the
\* desktop Python then Java for each selected Chrome version in list order and
\* the C++ suite last.  When it returns every one of them has run, and it
\* returns 0 exactly when every suite returned 0.
C20_AllSuitesRunNoFailureLost ==
  /\ IsPrefix(SuitesRan, ExpectedSuites)
  /\ main.pc = "returned" =>
       /\ SuitesRan = ExpectedSuites
       /\ main.ret # None
       /\ main.ret[1] = 0 <=> \A k \in 1..Len(main.ran) : main.ran[k].code = 0

\* A desktop run over all versions whose first suite failed and no other.
C20_Witness ==
  /\ main.pc = "returned"
  /\ ~main.android
  /\ Len(main.ran) = 9
  /\ main.ran[1].code = 1
  /\ \A k \in 2..9 : main.ran[k].code = 0
  /\ main.ret = Some(1)

====
